---- MODULE Spec2Model ----
(***************************************************************************)
(* A model of lowell80/gridfinity-rebuilt-openscad:                        *)
(*   - gridfinity_drawer_packer.py : Size, Container, combinations_of_sizes*)
(*   - build_all.py : jinja_render, Factor, CmdGenerator.build_commands,   *)
(*     run_command_isolated, run_for_series and the generators built from  *)
(*     them (scad_bin_gen, cmd_gen_for_slicer, slicer_bin_gen).            *)
(* Every specification below shares the same variables; a specification    *)
(* leaves the variables of the other parts at their idle value.            *)
(***************************************************************************)
EXTENDS Integers, Sequences, FiniteSets, TLC

VARIABLES
    \* ---- gridfinity_drawer_packer.Container -------------------------------
    size,        \* Container.size : <<x, y>>
    array,       \* Container.array : [0..x-1 -> [0..y-1 -> bin id or None]]
    _contents,   \* Container._contents : sequence of <<Point, Bin>>
    contents,    \* Container.contents : the attribute clear() assigns
    _fill,       \* Container._fill
    ret,         \* what the last Container operation returned
    \* ---- gridfinity_drawer_packer.combinations_of_sizes -------------------
    max_size,    \* the argument, <<x, y>>
    cwr,         \* position of combinations_with_replacement: <<i, j>> or Done
    combos,      \* the sizes yielded so far, in order
    \* ---- build_all.CmdGenerator.build_commands ----------------------------
    cmd_generator, \* which generator is walked (a name of GenOf)
    global_meta, \* CmdGenerator.global_meta
    pc,          \* where the walk is: start, gen, done, raised, ...
    pools,       \* the pools of itertools.product, one per factor
    pos,         \* its indices into the pools, or Exhausted
    last,        \* what the last iteration did: its position and outcome
    yielded,     \* the positions yielded by this call, in order
    dropped,     \* how many combinations this call dropped
    calls,       \* how many calls of build_commands were started
    first,       \* what the first call yielded
    err,         \* the exception that left the walk
    \* ---- build_all.run_for_series, run_command_isolated -------------------
    driver,      \* who iterates build_commands: "list" or "run_for_series"
    check_exists, \* the argument of run_for_series
    output_is_dir, \* the argument of run_for_series
    fs,          \* the file system: path -> file or directory
    tmp,         \* the TemporaryDirectory of run_command_isolated
    cmds         \* one record per command run_for_series was handed

packerVars == <<size, array, _contents, contents, _fill, ret>>
sizesVars == <<max_size, cwr, combos>>
genVars == <<cmd_generator, global_meta, pc, pools, pos, last, yielded,
             dropped, calls, first, err>>
seriesVars == <<driver, check_exists, output_is_dir, fs, tmp, cmds>>
vars == <<packerVars, sizesVars, genVars, seriesVars>>

\* None of Python, for a grid cell (bin ids are 0, 1, ...).
None == -1

Max(a, b) == IF a >= b THEN a ELSE b

(***************************************************************************)
(* Bounds                                                                  *)
(***************************************************************************)
\* Largest side of a Container, and of max_size of combinations_of_sizes.
MaxSide == 3
\* Largest side of a Bin handed to place_bin.
MaxBinSide == 2
\* place_bin is not called once _contents holds this many bins.
MaxBins == 3
\* build_commands is called at most this many times on a generator.
MaxCalls == 2
\* How deep the include lines of a .scad file are followed.
MaxIncludeDepth == 3
\* The destination of one of the first MaxStale commands may exist already.
MaxStale == 2

(***************************************************************************)
(* gridfinity_drawer_packer.py : Size                                      *)
(***************************************************************************)
swap(s) == <<s[2], s[1]>>

side_gt(s, length) == s[1] > length \/ s[2] > length

\* Size.__gt__ : larger in either dimension.
SizeGt(s, other) == s[1] > other[1] \/ s[2] > other[2]

\* Size.__lt__ : smaller in either dimension.
SizeLt(s, other) == s[1] < other[1] \/ s[2] < other[2]

area(s) == s[1] * s[2]

(***************************************************************************)
(* gridfinity_drawer_packer.py : Container                                 *)
(***************************************************************************)
\* range(a, b) of Python, as a set.
range(a, b) == a .. (b - 1)

\* Python list indexing: i is a valid index of a list of length n iff
\* -n <= i < n, and a negative index counts from the end.
ValidIndex(i, n) == -n <= i /\ i < n
PyIndex(i, n) == IF i < 0 THEN i + n ELSE i

EmptyArray(sz) == [x \in range(0, sz[1]) |-> [y \in range(0, sz[2]) |-> None]]

\* The cells range(x, x+bin.x) * range(y, y+bin.y) that overlaps and
\* place_bin visit.  The callers (find_next_open, the test) hand in
\* coordinates from 0 on; PlaceBin adds the one just past each edge.
Cells(bin, x, y) == range(x, x + bin[1]) \X range(y, y + bin[2])

\* populated(x, y) raises IndexError on an index outside the lists.
IndexErrorAt(c) == ~ValidIndex(c[1], size[1]) \/ ~ValidIndex(c[2], size[2])

populated(x, y) == array[PyIndex(x, size[1])][PyIndex(y, size[2])] # None

\* overlaps(bin, x, y): any() over the cells; place_bin treats an IndexError
\* like an overlap, so the two outcomes are folded into "not free".
overlaps(bin, x, y) ==
    \E c \in Cells(bin, x, y) : IndexErrorAt(c) \/ populated(c[1], c[2])

filled == <<_fill, area(size)>>

debug_filled1 ==
    <<Cardinality({c \in range(0, size[1]) \X range(0, size[2]) :
                      array[c[1]][c[2]] # None}), area(size)>>

RECURSIVE SumArea(_)
SumArea(s) == IF s = <<>> THEN 0 ELSE area(Head(s)[2]) + SumArea(Tail(s))

debug_filled2 == <<SumArea(_contents), area(size)>>

\* Equality of two quotients n/d given as <<n, d>>, d > 0.
FracEq(p, q) == p[1] * q[2] = q[1] * p[2]

\* Container.clear()
clear ==
    /\ array' = EmptyArray(size)
    /\ contents' = <<>>
    /\ ret' = "clear"
    /\ UNCHANGED <<size, _contents, _fill>>
    /\ UNCHANGED <<sizesVars, genVars, seriesVars>>

\* The array after place_bin wrote bin_id into every cell of the bin.
Written(bin, x, y, bin_id) ==
    LET hit == {<<PyIndex(c[1], size[1]), PyIndex(c[2], size[2])>> :
                    c \in Cells(bin, x, y)}
    IN  [i \in range(0, size[1]) |-> [j \in range(0, size[2]) |->
            IF <<i, j>> \in hit THEN bin_id ELSE array[i][j]]]

\* Container.place_bin(bin, x, y)
place_bin(bin, x, y) ==
    /\ Len(_contents) < MaxBins
    /\ IF overlaps(bin, x, y)
       THEN /\ ret' = "False"
            /\ UNCHANGED <<size, array, _contents, contents, _fill>>
       ELSE /\ _contents' = Append(_contents, <<<<x, y>>, bin>>)
            /\ array' = Written(bin, x, y, Len(_contents))
            /\ _fill' = _fill + area(bin)
            /\ ret' = "True"
            /\ UNCHANGED <<size, contents>>

PlaceBin ==
    \E bin \in (1 .. MaxBinSide) \X (1 .. MaxBinSide) :
    \E x \in 0 .. size[1] : \E y \in 0 .. size[2] :
        place_bin(bin, x, y) /\ UNCHANGED <<sizesVars, genVars, seriesVars>>

Clear == clear

\* Idle values of the variables of the other parts.
IdlePacker ==
    /\ size = <<1, 1>> /\ array = EmptyArray(<<1, 1>>) /\ _contents = <<>>
    /\ contents = <<>> /\ _fill = 0 /\ ret = "idle"
IdleSizes == max_size = <<1, 1>> /\ cwr = "idle" /\ combos = <<>>
IdleGen ==
    /\ cmd_generator = "idle" /\ global_meta = <<>> /\ pc = "idle"
    /\ pools = <<>> /\ pos = <<>> /\ last = <<>> /\ yielded = <<>>
    /\ dropped = 0 /\ calls = 0 /\ first = <<>> /\ err = ""
IdleSeries ==
    /\ driver = "list" /\ check_exists = FALSE /\ output_is_dir = FALSE
    /\ fs = <<>> /\ tmp = <<>> /\ cmds = <<>>

\* Container(size): __post_init__ calls clear().
InitContainer ==
    /\ size \in (1 .. MaxSide) \X (1 .. MaxSide)
    /\ array = EmptyArray(size)
    /\ _contents = <<>>
    /\ contents = <<>>
    /\ _fill = 0
    /\ ret = "init"
    /\ IdleSizes
    /\ IdleGen
    /\ IdleSeries

NextContainer == PlaceBin \/ Clear

SpecContainer == InitContainer /\ [][NextContainer]_vars

\* C9: after any sequence of place_bin and clear calls, filled() equals
\* debug_filled1() (the fraction of populated cells) and debug_filled2() (the
\* summed area of the recorded bins over the container area).
C9_FilledAgrees ==
    FracEq(filled, debug_filled1) /\ FracEq(filled, debug_filled2)

(***************************************************************************)
(* gridfinity_drawer_packer.py : combinations_of_sizes                     *)
(***************************************************************************)
Done == "done"

\* range(max(max_size.x, max_size.y), 0, -1): element k (1-based) is m-k+1.
SideAt(k) == Max(max_size[1], max_size[2]) - k + 1
NSides == Max(max_size[1], max_size[2])

\* combinations_with_replacement(r, 2): index pairs i <= j in lexical order.
CwrNext(p) ==
    IF p[2] < NSides THEN <<p[1], p[2] + 1>>
    ELSE IF p[1] < NSides THEN <<p[1] + 1, p[1] + 1>>
    ELSE Done

\* The condition under which combinations_of_sizes yields n (min_side = 1).
Yields(n, min_side) ==
    side_gt(n, min_side) /\ SizeLt(n, max_size) /\ SizeLt(n, swap(max_size))

\* One iteration of the for loop of combinations_of_sizes(max_size).
CombinationStep ==
    /\ cwr # Done
    /\ LET n == <<SideAt(cwr[1]), SideAt(cwr[2])>>
       IN  combos' = IF Yields(n, 1) THEN Append(combos, n) ELSE combos
    /\ cwr' = CwrNext(cwr)
    /\ UNCHANGED max_size
    /\ UNCHANGED <<packerVars, genVars, seriesVars>>

InitSizes ==
    /\ max_size \in (1 .. MaxSide + 2) \X (1 .. MaxSide + 2)
    /\ cwr = <<1, 1>>
    /\ combos = <<>>
    /\ IdlePacker
    /\ IdleGen
    /\ IdleSeries

NextSizes == CombinationStep

SpecSizes == InitSizes /\ [][NextSizes]_vars

InCombos(n) == \E k \in 1 .. Len(combos) : combos[k] = n

\* n fits inside m, in one orientation or the other.
Fits(n, m) == (n[1] <= m[1] /\ n[2] <= m[2]) \/ (n[2] <= m[1] /\ n[1] <= m[2])

\* C10: combinations_of_sizes(max_size) yields max_size itself and yields no
\* size that does not fit inside max_size.  (A max_size with no side above
\* min_side = 1 is left out: the min_side test alone discards it.)
C10_MaxYieldedNoneTooBig ==
    (cwr = Done /\ side_gt(max_size, 1)) =>
        /\ InCombos(max_size)
        /\ \A k \in 1 .. Len(combos) : Fits(combos[k], max_size)

(***************************************************************************)
(* build_all.py : text, templates and jinja_render                         *)
(*                                                                         *)
(* A text (a Python str) is a sequence of atoms, each a string; "/" is an  *)
(* atom of its own, and so are a file name's suffix (".scad") and each of  *)
(* the characters HTML escaping rewrites.  Concatenation is \o.            *)
(***************************************************************************)
Slash == "/"

\* markupsafe.escape, which jinja_env (autoescape=True) applies to the value
\* of every {{ expression }}.
EscapeAtom(a) ==
    CASE a = "&" -> "&amp;"
      [] a = "<" -> "&lt;"
      [] a = ">" -> "&gt;"
      [] OTHER -> a

escape(text) == [i \in DOMAIN text |-> EscapeAtom(text[i])]

\* A template is a sequence of pieces: template data, or a {{ expression }}.
\* Expressions: a string constant, a name, a ~ b ~ ..., a if k == v else b,
\* a if k != v else b, and k | default(s).
Data(s) == [p |-> "data", s |-> s]
Expr(x) == [p |-> "expr", x |-> x]
Const(s) == [e |-> "const", s |-> s]
Name(k) == [e |-> "name", k |-> k]
Tilde(xs) == [e |-> "tilde", xs |-> xs]
IfEq(k, v, a, b) == [e |-> "if", k |-> k, eq |-> TRUE, v |-> v, a |-> a, b |-> b]
IfNe(k, v, a, b) == [e |-> "if", k |-> k, eq |-> FALSE, v |-> v, a |-> a, b |-> b]
Default(k, s) == [e |-> "default", k |-> k, s |-> s]

\* The template "{{ k }}".
Ref(k) == Expr(Name(k))

Ok(v) == [ok |-> TRUE, val |-> v, err |-> ""]
Raise(e) == [ok |-> FALSE, val |-> <<>>, err |-> e]

UndefinedError == "UndefinedError"
KeyError == "KeyError"

\* The expression of a conditional that is evaluated: only the branch taken.
Branch(x, args) == IF (args[x.k] = x.v) = x.eq THEN x.a ELSE x.b

\* Whether an expression evaluates under StrictUndefined: an undefined name
\* raises UndefinedError when it is printed or compared.
RECURSIVE Defined(_, _)
Defined(x, args) ==
    CASE x.e = "const" -> TRUE
      [] x.e = "name" -> x.k \in DOMAIN args
      [] x.e = "tilde" -> \A i \in DOMAIN x.xs : Defined(x.xs[i], args)
      [] x.e = "if" -> x.k \in DOMAIN args /\ Defined(Branch(x, args), args)
      [] x.e = "default" -> TRUE

\* The value of an expression that evaluates.
RECURSIVE Eval(_, _)
RECURSIVE EvalAll(_, _)
Eval(x, args) ==
    CASE x.e = "const" -> x.s
      [] x.e = "name" -> args[x.k]
      [] x.e = "tilde" -> EvalAll(x.xs, args)
      [] x.e = "if" -> Eval(Branch(x, args), args)
      [] x.e = "default" -> IF x.k \in DOMAIN args THEN args[x.k] ELSE x.s

EvalAll(xs, args) ==
    IF xs = <<>> THEN <<>> ELSE Eval(Head(xs), args) \o EvalAll(Tail(xs), args)

\* One piece of a template: data is copied, the value of an expression is
\* escaped.
RenderPiece(piece, args) ==
    IF piece.p = "data" THEN piece.s ELSE escape(Eval(piece.x, args))

RECURSIVE RenderText(_, _)
RenderText(template, args) ==
    IF template = <<>> THEN <<>>
    ELSE RenderPiece(Head(template), args) \o RenderText(Tail(template), args)

Renders(template, args) ==
    \A i \in DOMAIN template :
        template[i].p = "expr" => Defined(template[i].x, args)

\* jinja_env.from_string(template).render(**args)
Render(template, args) ==
    IF Renders(template, args) THEN Ok(RenderText(template, args))
    ELSE Raise(UndefinedError)

\* '"{{" in template': the template holds an expression.
HasMarker(template) == \E i \in DOMAIN template : template[i].p = "expr"

RECURSIVE DataOf(_)
DataOf(template) ==
    IF template = <<>> THEN <<>>
    ELSE Head(template).s \o DataOf(Tail(template))

\* jinja_render(template, **args) for a str template.
jinja_render(template, args) ==
    IF HasMarker(template) THEN Render(template, args)
    ELSE Ok(DataOf(template))

\* A command argument: a str, or a CmdFile(name, purpose, type).
Str(template) == [file |-> FALSE, name |-> template, purpose |-> "", type |-> ""]
CmdFile(name, purpose, type) ==
    [file |-> TRUE, name |-> name, purpose |-> purpose, type |-> type]

\* A str without markers, of one atom.
Lit(s) == Str(<<Data(<<s>>)>>)

\* jinja_render(arg, **args) for a command argument: a CmdFile keeps its
\* purpose and type, its name is rendered.
jinja_render_arg(arg, args) ==
    IF jinja_render(arg.name, args).ok
    THEN Ok([arg EXCEPT !.name = jinja_render(arg.name, args).val])
    ELSE Raise(UndefinedError)

(***************************************************************************)
(* build_all.py : Factor, CmdGenerator                                     *)
(***************************************************************************)
\* Factor.condition = None
NoCondition == <<>>

\* A condition is "meta[k1] in vals1 or meta[k2] in vals2 or ...".
Clause(k, vals) == [k |-> k, vals |-> vals]

\* Factor(name, values, to_command, to_meta, condition) over a tuple of
\* values; to_command and to_meta are given as functions of the value.
Factor(name, values, to_command, to_meta, condition) ==
    [name |-> name, nested |-> FALSE, values |-> values, inner |-> "none",
     to_command |-> to_command, to_meta |-> to_meta, condition |-> condition]

\* Factor(name, cmd_generator): the values are a CmdGenerator.
NestedFactor(name, inner) ==
    [name |-> name, nested |-> TRUE, values |-> <<>>, inner |-> inner,
     to_command |-> <<>>, to_meta |-> <<>>, condition |-> NoCondition]

Range(s) == {s[i] : i \in DOMAIN s}

\* The defaults of Factor: to_command = lambda _: [], to_meta = str.
NoCommand(values) == [v \in Range(values) |-> <<>>]
StrMeta(values) == [v \in Range(values) |-> <<v>>]

\* CmdGenerator(cmd, factors, vars, path); vars is a dict, kept as the
\* sequence of its <<key, template>> items in insertion order.
CmdGenerator(cmd, factors, vs, path) ==
    [cmd |-> cmd, factors |-> factors, vars |-> vs, path |-> path]

\* CmdGenerator.__post_init__: filters holds the condition of every factor
\* that has one, in factor order.
HasCondition(f) == f.condition # NoCondition

filters(g) ==
    [i \in DOMAIN SelectSeq(g.factors, HasCondition) |->
        SelectSeq(g.factors, HasCondition)[i].condition]

\* One filter applied to meta: "true", "false", or KeyError when a clause
\* that is reached reads a key meta does not hold.
RECURSIVE EvalCondition(_, _)
EvalCondition(cond, meta) ==
    IF cond = <<>> THEN "false"
    ELSE IF Head(cond).k \notin DOMAIN meta THEN KeyError
    ELSE IF meta[Head(cond).k] \in Head(cond).vals THEN "true"
    ELSE EvalCondition(Tail(cond), meta)

\* CmdGenerator._filter(meta): the first filter that is not true decides.
RECURSIVE FilterAll(_, _)
FilterAll(fs_, meta) ==
    IF fs_ = <<>> THEN "true"
    ELSE IF EvalCondition(Head(fs_), meta) = "true" THEN FilterAll(Tail(fs_), meta)
    ELSE EvalCondition(Head(fs_), meta)

\* _filter with the bug of judging on meta without the last factor's tag.
_filterNoLast(g, meta) ==
    FilterAll(filters(g),
              [k \in DOMAIN meta \ {g.factors[Len(g.factors)].name} |-> meta[k]])

_filter(g, meta) == FilterAll(filters(g), meta)

EmptyMeta == [k \in {} |-> <<>>]

\* dict.update: the keys of new win.
Update(meta, new) == new @@ meta

\* MetaAfter with the bug of storing a nested result like a plain value,
\* under the factor's name, instead of merging its meta.
RECURSIVE MetaAfterNoMerge(_, _, _, _)
MetaAfterNoMerge(g, combo, overlay, i) ==
    IF i = 0 THEN overlay
    ELSE Update(MetaAfterNoMerge(g, combo, overlay, i - 1),
                IF g.factors[i].nested THEN g.factors[i].name :> combo[i].path
                ELSE g.factors[i].name :> g.factors[i].to_meta[combo[i]])

\* meta after the body of "for i, value in enumerate(combos)" ran for the
\* factors 1..i: a nested result's meta is merged in, a plain value is
\* stored under the factor's name.
RECURSIVE MetaAfter(_, _, _, _)
MetaAfter(g, combo, overlay, i) ==
    IF i = 0 THEN overlay
    ELSE Update(MetaAfter(g, combo, overlay, i - 1),
                IF g.factors[i].nested THEN combo[i].meta
                ELSE g.factors[i].name :> g.factors[i].to_meta[combo[i]])

\* cmd_args after the same loop: only a plain value extends it.
RECURSIVE ArgsAfter(_, _, _)
ArgsAfter(g, combo, i) ==
    IF i = 0 THEN g.cmd
    ELSE ArgsAfter(g, combo, i - 1) \o
            (IF g.factors[i].nested THEN <<>>
             ELSE g.factors[i].to_command[combo[i]])

\* {key: jinja_render(value, **meta) for key, value in self.vars.items()}:
\* every value is rendered against the meta of before the update.
VarsRender(vs, meta) == \A i \in DOMAIN vs : jinja_render(vs[i][2], meta).ok

RenderVars(vs, meta) ==
    [k \in {vs[i][1] : i \in DOMAIN vs} |->
        jinja_render(vs[CHOOSE i \in DOMAIN vs : vs[i][1] = k][2], meta).val]

ArgsRender(cmd_args, meta) ==
    \A i \in DOMAIN cmd_args : jinja_render(cmd_args[i].name, meta).ok

RenderArgs(cmd_args, meta) ==
    [i \in DOMAIN cmd_args |-> jinja_render_arg(cmd_args[i], meta).val]

CmdGeneratorResult(path, cmd_args, meta) ==
    [path |-> path, cmd_args |-> cmd_args, meta |-> meta]

NoResult == CmdGeneratorResult(<<>>, <<>>, EmptyMeta)

Yield(r) == [kind |-> "yield", res |-> r, err |-> ""]
Drop(meta) == [kind |-> "drop", res |-> CmdGeneratorResult(<<>>, <<>>, meta), err |-> ""]
Throw(e) == [kind |-> "raise", res |-> NoResult, err |-> e]

\* build_commands from "if self._filter(meta)" on.
Finish(g, cmd_args, meta) ==
    IF _filter(g, meta) = KeyError THEN Throw(KeyError)
    ELSE IF _filter(g, meta) = "false" THEN Drop(meta)
    ELSE IF ~ArgsRender(cmd_args, meta) THEN Throw(UndefinedError)
    ELSE IF ~jinja_render(g.path, meta).ok THEN Throw(UndefinedError)
    ELSE Yield(CmdGeneratorResult(jinja_render(g.path, meta).val,
                                  RenderArgs(cmd_args, meta), meta))

\* The vars resolved one at a time, in declared order, each value written
\* into meta before the next is rendered: whether the first i render, and
\* the meta they leave.
RECURSIVE SequentialVars(_, _, _)
SequentialVars(vs, meta, i) ==
    IF i = 0 THEN meta
    ELSE Update(SequentialVars(vs, meta, i - 1),
                vs[i][1] :> jinja_render(vs[i][2], SequentialVars(vs, meta, i - 1)).val)

RECURSIVE SequentialVarsOk(_, _, _)
SequentialVarsOk(vs, meta, i) ==
    \/ i = 0
    \/ /\ SequentialVarsOk(vs, meta, i - 1)
       /\ jinja_render(vs[i][2], SequentialVars(vs, meta, i - 1)).ok

\* Resolve with the vars resolved one at a time instead of together.
ResolveSequential(g, cmd_args, meta) ==
    IF ~SequentialVarsOk(g.vars, meta, Len(g.vars)) THEN Throw(UndefinedError)
    ELSE Finish(g, cmd_args, SequentialVars(g.vars, meta, Len(g.vars)))

\* build_commands from "meta.update(...)" on, meta being the one the factor
\* loop left.
Resolve(g, cmd_args, meta) ==
    IF ~VarsRender(g.vars, meta) THEN Throw(UndefinedError)
    ELSE Finish(g, cmd_args, Update(meta, RenderVars(g.vars, meta)))

\* One iteration of "for combos in self.product()" of build_commands: the
\* combination is yielded, dropped by the filters, or an exception leaves
\* the generator.
BuildOne(g, combo, overlay) ==
    Resolve(g, ArgsAfter(g, combo, Len(g.factors)),
            MetaAfter(g, combo, overlay, Len(g.factors)))

\* itertools.product(*factors) reads every factor to its end first (a
\* nested CmdGenerator is run to completion by Factor.__iter__) and then
\* walks the tuples with the last factor varying fastest.
RECURSIVE Product(_)
Product(ns) == IF ns = <<>> THEN 1 ELSE Head(ns) * Product(Tail(ns))

\* The n-th tuple (n from 0) of the product of pools, as indices into them.
RECURSIVE Digits(_, _)
Digits(n, ns) ==
    IF ns = <<>> THEN <<>>
    ELSE <<(n \div Product(Tail(ns))) + 1>> \o
            Digits(n % Product(Tail(ns)), Tail(ns))

ComboAt(pools_, where) == [i \in DOMAIN pools_ |-> pools_[i][where[i]]]

Sizes(pools_) == [i \in DOMAIN pools_ |-> Len(pools_[i])]

\* The outcome of every combination of the pools, in product order.
Outcomes(g, ps, overlay) ==
    [n \in 1 .. Product(Sizes(ps)) |->
        BuildOne(g, ComboAt(ps, Digits(n - 1, Sizes(ps))), overlay)]

IsYield(r) == r.kind = "yield"

\* tuple(generator): every result in order, or the first exception.
Collect(all) ==
    IF \E n \in DOMAIN all : all[n].kind = "raise"
    THEN Raise(all[CHOOSE n \in DOMAIN all :
                    /\ all[n].kind = "raise"
                    /\ \A m \in 1 .. n - 1 : all[m].kind # "raise"].err)
    ELSE Ok([n \in DOMAIN SelectSeq(all, IsYield) |-> SelectSeq(all, IsYield)[n].res])

\* The pools of a generator without nested factors.
PlainPools(g) == [i \in DOMAIN g.factors |-> g.factors[i].values]

\* Factor.__iter__ of a nested factor: tuple(self.values.build_commands()).
\* (The generators here nest one level deep.)
InnerResults(inner, overlay) ==
    Collect(Outcomes(inner, PlainPools(inner), overlay))

\* The pools itertools.product builds for g, or the exception of a nested
\* generator.
Pools(g, overlay) ==
    IF \E i \in DOMAIN g.factors :
            g.factors[i].nested /\ ~InnerResults(g.factors[i].inner, overlay).ok
    THEN Raise(InnerResults(
            g.factors[CHOOSE i \in DOMAIN g.factors :
                        g.factors[i].nested
                        /\ ~InnerResults(g.factors[i].inner, overlay).ok].inner,
            overlay).err)
    ELSE Ok([i \in DOMAIN g.factors |->
                IF g.factors[i].nested
                THEN InnerResults(g.factors[i].inner, overlay).val
                ELSE g.factors[i].values])

(***************************************************************************)
(* build_all.py : the generators                                           *)
(***************************************************************************)
OPENSCAD_BIN == Lit("/Applications/OpenSCAD.app/Contents/MacOS/OpenSCAD")
SLICER_BIN == Lit("/Applications/PrusaSlicer.app/Contents/MacOS/PrusaSlicer")
OUTPUT_MODELS == <<"output", Slash, "gridfinity", Slash, "models">>
OUTPUT_GCODE == <<"output", Slash, "gridfinity", Slash, "gcode">>

\* shared_meta of __main__, which CmdGenerator.global_meta is updated with.
shared_meta ==
    ("output_models" :> OUTPUT_MODELS) @@ ("output_gcode" :> OUTPUT_GCODE)

\* openscad_arg(var_name)(value) = ["-D", f"{var_name}={value}"]
openscad_arg(var_name, values) ==
    [v \in Range(values) |-> <<Lit("-D"), Lit(var_name \o "=" \o ToString(v))>>]

\* expand_xy(min, max, block): combinations_with_replacement(
\* range(min, max+1), 2) without the blocked pairs, in order.
expand_xy(min, max, block) ==
    LET k == max - min + 1
        all == [n \in 1 .. k * k |-> <<((n - 1) \div k) + min, ((n - 1) % k) + min>>]
    IN  SelectSeq(all, LAMBDA v : v[1] <= v[2] /\ v \notin block)

\* to_command and to_meta of the base_size and size factors.
GridCommand(values) ==
    [v \in Range(values) |-> <<Lit("-D"), Lit("gridx=" \o ToString(v[1])),
                               Lit("-D"), Lit("gridy=" \o ToString(v[2]))>>]
GridMeta(values) ==
    [v \in Range(values) |-> <<ToString(v[1]) \o "x" \o ToString(v[2])>>]

\* str(v) of an int value.
IntMeta(values) == [v \in Range(values) |-> <<ToString(v)>>]

\* The factors of scad_bin_gen after base_size.  The values of base are
\* 0, 1 and "lite", written here as strings.
BaseValues == <<"0", "1", "lite">>
BaseCommand ==
    [v \in Range(BaseValues) |->
        IF v # "lite" THEN <<Lit("-D"), Lit("style_hole=" \o v)>>
        ELSE <<Lit("-D"), Lit("divx=1"), Lit("-D"), Lit("divy=1")>>]
BaseMeta == ("0" :> <<"flat">>) @@ ("1" :> <<"magnet">>) @@ ("lite" :> <<"lite">>)

StlPathTemplate ==
    <<Ref("output_models"), Data(<<Slash, "bins", Slash>>), Ref("base"),
      Data(<<"-">>), Ref("lip"), Data(<<Slash, "bin-">>), Ref("base_size"),
      Data(<<"-">>), Ref("height"), Data(<<"h-">>), Ref("base"), Data(<<"-">>),
      Ref("lip"), Data(<<".stl">>)>>

ScadCmd ==
    <<OPENSCAD_BIN, Lit("--export-format=binstl"), Lit("--enable"),
      Lit("fast-csg"), Lit("-o"), CmdFile(<<Ref("stl_path")>>, "output", "file"),
      CmdFile(<<Data(<<"gridfinity-rebuilt-">>),
                Expr(IfEq("base", <<"lite">>, Const(<<"lite">>), Const(<<"bins">>))),
                Data(<<".scad">>)>>, "input", "file")>>

\* scad_bin_gen with the given base_size, height and base values.
ScadBinGen(sizes, heights, bases) ==
    CmdGenerator(
        ScadCmd,
        <<Factor("base_size", sizes, GridCommand(sizes), GridMeta(sizes), NoCondition),
          Factor("height", heights, openscad_arg("gridz", heights), IntMeta(heights),
                 NoCondition),
          Factor("base", bases, BaseCommand, BaseMeta, NoCondition),
          Factor("lip", <<0, 2>>, openscad_arg("style_lip", <<0, 2>>),
                 (0 :> <<"stackable">>) @@ (2 :> <<"open">>), NoCondition),
          Factor("tab", <<5>>, openscad_arg("style_tab", <<5>>),
                 (5 :> <<"no-tab">>), NoCondition),
          Factor("scoop", <<0>>, openscad_arg("scoop", <<0>>), IntMeta(<<0>>),
                 NoCondition)>>,
        <<<<"stl_path", StlPathTemplate>>>>,
        <<Ref("stl_path")>>)

scad_bin_gen ==
    ScadBinGen(expand_xy(1, 5, {<<5, 5>>}), <<2, 4, 6, 8, 10, 12>>, BaseValues)

\* cmd_gen_for_slicer(scad_cmd, path_template, extra_factors, extra_vars)
cmd_gen_for_slicer(scad_cmd, path_template, extra_factors, extra_vars) ==
    CmdGenerator(
        <<SLICER_BIN, Lit("--export-gcode"), Lit("--load"),
          CmdFile(<<Data(<<"profile_">>), Ref("filament_type"), Data(<<"_n">>),
                    Ref("nozzle_diameter"), Data(<<".ini">>)>>, "input", "file"),
          Lit("--output"), CmdFile(<<Ref("gcode_path")>>, "output", "dir"),
          Lit("--output-filename-format"),
          Str(<<Data(<<"{input_filename_base}">>),
                Expr(Default("name_suffix", <<>>)),
                Data(<<"_{nozzle_diameter[0]}n_{layer_height}mm_{printing_filament_types}_{printer_model}_{print_time}", ".gcode">>)>>),
          CmdFile(<<Ref("stl_path")>>, "input", "file")>>,
        <<NestedFactor("model", scad_cmd),
          Factor("filament_type", <<"pla", "petg">>, NoCommand(<<"pla", "petg">>),
                 StrMeta(<<"pla", "petg">>), NoCondition),
          Factor("nozzle_diameter", <<"06">>, NoCommand(<<"06">>),
                 StrMeta(<<"06">>), NoCondition)>> \o extra_factors,
        <<<<"gcode_path", path_template>>>> \o extra_vars,
        <<Ref("gcode_path")>>)

\* PrintCountCondition with the bug of leaving 1x1 out of the sizes.
PrintCountConditionNo1x1 ==
    <<Clause("print_count", {<<"1">>}),
      Clause("base_size", {<<"1x2">>, <<"2x2">>})>>

\* The print_count factor of slicer_bin_gen and its condition
\* int(meta["print_count"]) == 1 or meta["base_size"] in ("1x1","1x2","2x2").
PrintCountCondition ==
    <<Clause("print_count", {<<"1">>}),
      Clause("base_size", {<<"1x1">>, <<"1x2">>, <<"2x2">>})>>

PrintCountFactor ==
    Factor("print_count", <<1, 4>>,
           [v \in {1, 4} |-> IF v > 1 THEN <<Lit("--duplicate"), Lit(ToString(v))>>
                             ELSE <<>>],
           IntMeta(<<1, 4>>), PrintCountCondition)

MultiSuffix ==
    Expr(IfNe("print_count", <<"1">>, Const(<<Slash, "multi">>), Const(<<>>)))

GcodePathTemplate ==
    <<Ref("output_gcode"), Data(<<Slash, "bins", Slash>>), Ref("filament_type"),
      Data(<<"-n">>), Ref("nozzle_diameter"), Data(<<Slash>>), Ref("base"),
      Data(<<"-">>), Ref("lip"), Data(<<Slash>>), Ref("base_size"), MultiSuffix>>

NameSuffixTemplate ==
    <<Expr(IfNe("print_count", <<"1">>,
                Tilde(<<Const(<<"_">>), Name("print_count"), Const(<<"x">>)>>),
                Const(<<>>)))>>

SlicerBinGen(scad_cmd) ==
    cmd_gen_for_slicer(scad_cmd, GcodePathTemplate, <<PrintCountFactor>>,
                       <<<<"name_suffix", NameSuffixTemplate>>>>)

slicer_bin_gen == SlicerBinGen(scad_bin_gen)

(***************************************************************************)
(* Small generators, built like the ones above                             *)
(***************************************************************************)
ABValues == <<"x", "y">>

ABPath == <<Ref("A"), Data(<<"-">>), Ref("B"), Data(<<".out">>)>>

\* Factors A = (1, 2) and B = ("x", "y"); cond is the condition of B.
ABGen(cond, cmd, vs) ==
    CmdGenerator(
        cmd,
        <<Factor("A", <<1, 2>>, openscad_arg("a", <<1, 2>>), IntMeta(<<1, 2>>),
                 NoCondition),
          Factor("B", ABValues, NoCommand(ABValues), StrMeta(ABValues), cond)>>,
        vs,
        <<Data(<<"out", Slash>>)>> \o ABPath)

ABCmd ==
    <<Lit("tool"), Lit("-o"),
      CmdFile(<<Data(<<"out", Slash>>)>> \o ABPath, "output", "file"),
      CmdFile(<<Data(<<"in", ".txt">>)>>, "input", "file")>>

\* "A == 1 or B == x" as the condition of B: it reads the earlier factor A.
ABCondition == <<Clause("A", {<<"1">>}), Clause("B", {<<"x">>})>>

\* A command argument that reads the name missing only where A is 2.
LateUndefined ==
    Str(<<Expr(IfEq("A", <<"2">>, Name("missing"), Const(<<"ok">>)))>>)

scad_small == ScadBinGen(<<<<1, 1>>, <<3, 3>>>>, <<2>>, <<"0", "lite">>)

BasePathTemplate ==
    <<Ref("output_gcode"), Data(<<Slash, "bins", Slash>>), Ref("filament_type"),
      Data(<<"-n">>), Ref("nozzle_diameter"), Data(<<Slash>>), Ref("base")>>

\* An extra factor of the outer generator named like a key of the inner one.
ClashFactor ==
    Factor("height", <<"tall">>, NoCommand(<<"tall">>), StrMeta(<<"tall">>),
           NoCondition)

\* The generators run_for_series is run on: scad_bin_gen and a slicer
\* generator over it, with one base_size and one height.
scad_tiny == ScadBinGen(<<<<1, 1>>>>, <<2>>, <<"0", "lite">>)

LipPathTemplate ==
    <<Ref("output_gcode"), Data(<<Slash, "bins", Slash>>), Ref("filament_type"),
      Data(<<"-n">>), Ref("nozzle_diameter"), Data(<<Slash>>), Ref("base"),
      Data(<<"-">>), Ref("lip")>>

scad_flat == ScadBinGen(<<<<1, 1>>>>, <<2>>, <<"0">>)

slicer_tiny == cmd_gen_for_slicer(scad_flat, LipPathTemplate, <<>>, <<>>)

\* Factors A = (1, 2) and B = ("x", "y") where the condition is declared on
\* A and reads the tag of the later factor B: "B == x".
LaterCondition == <<Clause("B", {<<"x">>})>>

ABLaterGen ==
    CmdGenerator(
        ABCmd,
        <<Factor("A", <<1, 2>>, openscad_arg("a", <<1, 2>>), IntMeta(<<1, 2>>),
                 LaterCondition),
          Factor("B", ABValues, NoCommand(ABValues), StrMeta(ABValues), NoCondition)>>,
        <<>>,
        <<Data(<<"out", Slash>>)>> \o ABPath)

\* Vars of which the second reads the first: "stem" is no key of meta before
\* the vars are resolved, "B" is the tag of the factor B.
ChainVars ==
    <<<<"stem", <<Ref("A"), Data(<<"-">>), Ref("B")>>>>,
      <<"file", <<Ref("stem"), Data(<<".out">>)>>>>>>

ShadowVars ==
    <<<<"B", <<Data(<<"b-">>), Ref("A")>>>>,
      <<"file", <<Ref("B"), Data(<<".out">>)>>>>>>

GenOf(id) ==
    CASE id = "ab" -> ABGen(NoCondition, ABCmd, <<>>)
      [] id = "ab_later" -> ABLaterGen
      [] id = "ab_var_chain" -> ABGen(NoCondition, ABCmd, ChainVars)
      [] id = "ab_var_shadow" -> ABGen(NoCondition, ABCmd, ShadowVars)
      [] id = "ab_cond" -> ABGen(ABCondition, ABCmd, <<>>)
      [] id = "ab_undefined_var" ->
            ABGen(NoCondition, ABCmd, <<<<"v", <<Ref("missing")>>>>>>)
      [] id = "ab_undefined_late" ->
            ABGen(NoCondition, ABCmd \o <<LateUndefined>>, <<>>)
      [] id = "scad_small" -> scad_small
      [] id = "slicer_small" -> SlicerBinGen(scad_small)
      [] id = "slicer_plain" ->
            cmd_gen_for_slicer(scad_small, BasePathTemplate, <<>>, <<>>)
      [] id = "slicer_clash" ->
            cmd_gen_for_slicer(scad_small, BasePathTemplate, <<ClashFactor>>, <<>>)
      [] id = "scad_tiny" -> scad_tiny
      [] id = "slicer_tiny" -> slicer_tiny
      [] id = "scad_bin_gen" -> scad_bin_gen
      [] id = "slicer_bin_gen" -> slicer_bin_gen

SmallGens ==
    {"ab", "ab_cond", "ab_later", "ab_undefined_var", "ab_undefined_late", "ab_var_chain",
     "ab_var_shadow", "scad_small",
     "slicer_small", "slicer_plain", "slicer_clash"}

gen == GenOf(cmd_generator)

(***************************************************************************)
(* pathlib, shutil and the file system                                     *)
(*                                                                         *)
(* A path is a text; its components are separated by the atom "/".  The    *)
(* file system maps the paths that exist to a node: a directory, or a file *)
(* with its data and the paths its "include <...>" lines name.             *)
(***************************************************************************)
File(data, includes) == [kind |-> "file", data |-> data, includes |-> includes]
Dir == [kind |-> "dir", data |-> "", includes |-> <<>>]

\* The current directory, Path(".").
Here == <<>>

\* The index of the last "/" of p, 0 when p has none.
RECURSIVE LastSlash(_, _)
LastSlash(p, i) ==
    IF i = 0 THEN 0 ELSE IF p[i] = Slash THEN i ELSE LastSlash(p, i - 1)

\* Path.parent and Path.name
parent(p) ==
    IF LastSlash(p, Len(p)) = 0 THEN Here
    ELSE SubSeq(p, 1, LastSlash(p, Len(p)) - 1)
name(p) == SubSeq(p, LastSlash(p, Len(p)) + 1, Len(p))

\* a / b
Join(a, b) == IF a = Here THEN b ELSE a \o <<Slash>> \o b

\* The atoms that are a file name's suffix.
Suffixes == {".scad", ".stl", ".ini", ".gcode", ".txt", ".out"}

\* Path.suffix
suffix(p) ==
    IF name(p) # <<>> /\ name(p)[Len(name(p))] \in Suffixes
    THEN name(p)[Len(name(p))] ELSE ""

\* Path.is_file, Path.is_dir
is_file(tree, p) == p \in DOMAIN tree /\ tree[p].kind = "file"
is_dir(tree, p) == p = Here \/ (p \in DOMAIN tree /\ tree[p].kind = "dir")

\* "absent", "file" or "dir"
KindOf(tree, p) ==
    IF is_dir(tree, p) THEN "dir" ELSE IF is_file(tree, p) THEN "file" ELSE "absent"

\* p and the directories above it, Here left out.
Ancestors(p) ==
    {SubSeq(p, 1, i - 1) : i \in {j \in DOMAIN p : p[j] = Slash}} \cup {p}

\* Path.mkdir(parents=True), exist_ok=False: FileExistsError when p exists,
\* and when a path above it is a file.
MkdirParentsFails(tree, p) ==
    p \in DOMAIN tree \/ \E a \in Ancestors(p) : is_file(tree, a)

MkdirParents(tree, p) ==
    [a \in Ancestors(p) \ DOMAIN tree |-> Dir] @@ tree

\* Path.mkdir(): p must not exist and its parent must be a directory.
MkdirFails(tree, p) == p \in DOMAIN tree \/ ~is_dir(tree, parent(p))

Mkdir(tree, p) == (p :> Dir) @@ tree

\* Where shutil.copy(src, dst) writes: into dst when dst is a directory.
CopyTarget(tree, src, dst) == IF is_dir(tree, dst) THEN Join(dst, name(src)) ELSE dst

\* shutil.copy(src, dst) raises when src is no file, when the target is a
\* directory, and when the target's directory does not exist.
CopyFails(from, src, to, dst) ==
    \/ ~is_file(from, src)
    \/ is_dir(to, CopyTarget(to, src, dst))
    \/ ~is_dir(to, parent(CopyTarget(to, src, dst)))

\* The exception of a shutil.copy(src, dst) that raises.
CopyError(from, src, to, dst) ==
    IF is_dir(from, src) \/ is_dir(to, CopyTarget(to, src, dst)) THEN "IsADirectoryError"
    ELSE "FileNotFoundError"

\* copy with the bug of leaving a file that is at the target as it is.
copyKeepsExisting(from, src, to, dst) == to @@ (CopyTarget(to, src, dst) :> from[src])

\* The tree `to` after shutil.copy(src, dst), src read in the tree `from`.
copy(from, src, to, dst) == (CopyTarget(to, src, dst) :> from[src]) @@ to

(***************************************************************************)
(* build_all.py : copy_scad_with_include, run_command_isolated             *)
(***************************************************************************)
EmptyTree == [q \in {} |-> Dir]

IsInput(arg) == arg.file /\ arg.purpose = "input"
IsOutput(arg) == arg.file /\ arg.purpose = "output"

input_files(cmd_args) == SelectSeq(cmd_args, IsInput)
output_files(cmd_args) == SelectSeq(cmd_args, IsOutput)

\* copy_scad_with_include(src_file, dest_dir) returns: src_file and every
\* file its include lines lead to can be opened.  depth bounds the
\* recursion (Python's own bound is its recursion limit).
RECURSIVE Readable(_, _, _)
Readable(tree, src_file, depth) ==
    /\ depth > 0
    /\ is_file(tree, src_file)
    /\ \A i \in DOMAIN tree[src_file].includes :
            Readable(tree, tree[src_file].includes[i], depth - 1)

\* The files copy_scad_with_include(src_file, dest_dir) copies.
RECURSIVE IncludeClosure(_, _, _)
IncludeClosure(tree, src_file, depth) ==
    IF depth = 0 THEN {}
    ELSE {src_file} \cup
         UNION {IncludeClosure(tree, tree[src_file].includes[i], depth - 1) :
                    i \in DOMAIN tree[src_file].includes}

\* Whether staging one input file raises: a missing file, or an include
\* that cannot be opened (FileNotFoundError).
StageFails(tree, file, depth) ==
    IF suffix(file.name) = ".scad" THEN ~Readable(tree, file.name, depth)
    ELSE ~is_file(tree, file.name)

\* The files one input puts into the sandbox, under their own names.
StageOne(tree, file, depth) ==
    IF suffix(file.name) = ".scad"
    THEN [n \in {name(q) : q \in IncludeClosure(tree, file.name, depth)} |->
            tree[CHOOSE q \in IncludeClosure(tree, file.name, depth) : name(q) = n]]
    ELSE name(file.name) :> tree[file.name]

\* The sandbox after "for file in input_files" staged the inputs 1..i.
RECURSIVE Staged(_, _, _, _)
Staged(tree, inputs, depth, i) ==
    IF i = 0 THEN EmptyTree
    ELSE StageOne(tree, inputs[i], depth) @@ Staged(tree, inputs, depth, i - 1)

IsDirOutput(arg) == IsOutput(arg) /\ arg.type = "dir"

\* "Ensure any output directories already exists": (temp_path / name).mkdir()
\* for every output of type dir; FileExistsError when an input was staged
\* under that name.
OutputDirs(cmd_args) ==
    {name(cmd_args[i].name) : i \in {j \in DOMAIN cmd_args : IsDirOutput(cmd_args[j])}}

WithOutputDirs(sandbox, cmd_args) ==
    [d \in OutputDirs(cmd_args) |-> Dir] @@ sandbox

\* What the external process may leave under an output directory d.
Shapes == {"none", "flat", "nested"}

ProcessTree(d, shape, data) ==
    CASE shape = "none" -> EmptyTree
      [] shape = "flat" -> Join(d, <<"plate", ".gcode">>) :> File(data, <<>>)
      [] shape = "nested" ->
            (Join(d, <<"plate", ".gcode">>) :> File(data, <<>>))
            @@ (Join(d, <<"meta">>) :> Dir)
            @@ (Join(d, <<"meta", Slash, "info", ".txt">>) :> File(data, <<>>))

\* The sandbox after the external process ran: it may write each declared
\* output file (or not), and a tree of the given shape under each declared
\* output directory.
RECURSIVE AfterProcess(_, _, _, _, _, _)
AfterProcess(sandbox, outs, wrote, shape, data, i) ==
    IF i = 0 THEN sandbox
    ELSE (IF outs[i].type = "dir" THEN ProcessTree(name(outs[i].name), shape, data)
          ELSE IF wrote THEN name(outs[i].name) :> File(data, <<>>)
          ELSE EmptyTree)
         @@ AfterProcess(sandbox, outs, wrote, shape, data, i - 1)

\* (temp_path / d).glob("**/*"): everything below d, files and directories.
Below(sandbox, d) ==
    {q \in DOMAIN sandbox : Len(q) > Len(d) + 1 /\ SubSeq(q, 1, Len(d) + 1) = d \o <<Slash>>}

\* glob lists a directory's entries in the order the system hands them out,
\* and a directory below after the entries of the one above it.
Depth(q) == Cardinality({i \in DOMAIN q : q[i] = Slash})

GlobOrders(entries) ==
    {o \in [1 .. Cardinality(entries) -> entries] :
        /\ \A i, j \in DOMAIN o : i < j => (o[i] # o[j] /\ Depth(o[i]) <= Depth(o[j]))}

\* The first entry of the order that shutil.copy(path, dest) refuses, or
\* one past the end.
FirstRefused(sandbox, order, tree, dest) ==
    IF \E i \in DOMAIN order : CopyFails(sandbox, order[i], tree, dest)
    THEN CHOOSE i \in DOMAIN order :
            /\ CopyFails(sandbox, order[i], tree, dest)
            /\ \A j \in 1 .. i - 1 : ~CopyFails(sandbox, order[j], tree, dest)
    ELSE Len(order) + 1

\* The tree after the entries 1..n of the order were copied into dest.
RECURSIVE CopyAll(_, _, _, _, _)
CopyAll(sandbox, order, tree, dest, n) ==
    IF n = 0 THEN tree
    ELSE copy(sandbox, order[n], CopyAll(sandbox, order, tree, dest, n - 1), dest)

(***************************************************************************)
(* build_all.py : a walk of CmdGenerator.build_commands                    *)
(***************************************************************************)
\* The indices of itertools.product after one more step: the last pool
\* moves fastest, a pool that wraps carries into the one before it.
Exhausted == <<0>>

RECURSIVE Carry(_, _, _)
Carry(where, ns, i) ==
    IF i = 0 THEN Exhausted
    ELSE IF where[i] < ns[i] THEN [where EXCEPT ![i] = where[i] + 1]
    ELSE Carry([where EXCEPT ![i] = 1], ns, i - 1)

\* Carry with the bug of moving the first pool fastest.
RECURSIVE CarryUp(_, _, _)
CarryUp(where, ns, i) ==
    IF i > Len(ns) THEN Exhausted
    ELSE IF where[i] < ns[i] THEN [where EXCEPT ![i] = where[i] + 1]
    ELSE CarryUp([where EXCEPT ![i] = 1], ns, i + 1)

AdvanceFirstFastest(where, ns) == CarryUp(where, ns, 1)

Advance(where, ns) == Carry(where, ns, Len(ns))

FirstPos(ns) ==
    IF \E i \in DOMAIN ns : ns[i] = 0 THEN Exhausted ELSE [i \in DOMAIN ns |-> 1]

\* What is kept of a command that run_for_series reached: its position, its
\* destination, what was at the destination then, how far the command got,
\* whether its process was launched, the exit code, the data it wrote and
\* the shape of the tree it left under its output directory.
Reached(at, path, tree) ==
    [at |-> at, path |-> path, pre |-> KindOf(tree, path), outcome |-> "reached",
     launched |-> FALSE, rc |-> 0, made |-> "", shape |-> "none"]

\* The first next() of build_commands: self.product() builds the pools.
GenStart ==
    /\ pc = "start"
    /\ \E ps \in {Pools(gen, global_meta)} :
           IF ps.ok
           THEN /\ pools' = ps.val
                /\ pos' = FirstPos(Sizes(ps.val))
                /\ pc' = "gen"
                /\ err' = ""
           ELSE /\ pc' = "raised"
                /\ err' = ps.err
                /\ UNCHANGED <<pools, pos>>
    /\ UNCHANGED <<cmd_generator, global_meta, last, yielded, dropped, calls, first>>
    /\ UNCHANGED <<packerVars, sizesVars, seriesVars>>

\* One iteration of the for loop of build_commands, or its end.
GenNext ==
    /\ pc = "gen"
    /\ IF pos = Exhausted
       THEN /\ pc' = "done"
            /\ UNCHANGED <<pos, last, yielded, dropped, err, cmds>>
       ELSE \E r \in {BuildOne(gen, ComboAt(pools, pos), global_meta)} :
                /\ last' = [at |-> pos, kind |-> r.kind, res |-> r.res]
                /\ pos' = IF r.kind = "raise" THEN pos ELSE Advance(pos, Sizes(pools))
                /\ yielded' = IF r.kind = "yield" THEN Append(yielded, pos) ELSE yielded
                /\ dropped' = IF r.kind = "drop" THEN dropped + 1 ELSE dropped
                /\ pc' = IF r.kind = "raise" THEN "raised"
                         ELSE IF r.kind = "yield" /\ driver = "run_for_series" THEN "body"
                         ELSE "gen"
                /\ err' = r.err
                /\ cmds' = IF r.kind = "yield" /\ driver = "run_for_series"
                           THEN Append(cmds, Reached(pos, r.res.path, fs))
                           ELSE cmds
    /\ UNCHANGED <<cmd_generator, global_meta, pools, calls, first>>
    /\ UNCHANGED <<driver, check_exists, output_is_dir, fs, tmp>>
    /\ UNCHANGED <<packerVars, sizesVars>>

\* build_commands() is called again on the same generator.
GenAgain ==
    /\ pc = "done"
    /\ driver = "list"
    /\ calls < MaxCalls
    /\ calls' = calls + 1
    /\ first' = IF calls = 1 THEN yielded ELSE first
    /\ pc' = "start"
    /\ pools' = <<>>
    /\ pos' = <<>>
    /\ last' = <<>>
    /\ yielded' = <<>>
    /\ dropped' = 0
    /\ UNCHANGED <<cmd_generator, global_meta, err>>
    /\ UNCHANGED <<packerVars, sizesVars, seriesVars>>

InitGenWith(ids) ==
    /\ cmd_generator \in ids
    /\ global_meta \in {EmptyMeta, shared_meta}
    /\ pc = "start"
    /\ pools = <<>>
    /\ pos = <<>>
    /\ last = <<>>
    /\ yielded = <<>>
    /\ dropped = 0
    /\ calls = 1
    /\ first = <<>>
    /\ err = ""
    /\ IdlePacker
    /\ IdleSizes
    /\ IdleSeries

InitGen == InitGenWith(SmallGens)

NextGen == GenStart \/ GenNext \/ GenAgain

SpecGen == InitGen /\ [][NextGen]_vars

\* The walk of slicer_bin_gen, the generator __main__ runs.
InitSlicer == InitGenWith({"slicer_bin_gen"})

SpecSlicer == InitSlicer /\ [][NextGen]_vars

(***************************************************************************)
(* build_all.py : run_for_series                                           *)
(***************************************************************************)
\* The command run_for_series is at, and what is kept of it.
result == last.res
Current == cmds[Len(cmds)]

Record(outcome) == [cmds EXCEPT ![Len(cmds)].outcome = outcome]

\* No TemporaryDirectory exists.
NoSandbox == [exists |-> FALSE, tree |-> EmptyTree, k |-> 0, rc |-> 0]

\* "if check_exists and result.path.is_file()": the command is skipped.
SkipsExisting(check, tree, path) == check /\ is_file(tree, path)

\* The directory the body of run_for_series makes sure of.
Ensured(path) == IF output_is_dir THEN path ELSE parent(path)

\* The body of the for loop of run_for_series up to the call of
\* run_command_isolated: the destination (or its parent) is created when it
\* is no directory, and a destination that is_file() ends the body under
\* check_exists.
SeriesBody ==
    /\ pc = "body"
    /\ IF ~is_dir(fs, Ensured(result.path)) /\ MkdirParentsFails(fs, Ensured(result.path))
       THEN /\ pc' = "raised"
            /\ err' = "FileExistsError"
            /\ cmds' = Record("mkdir_failed")
            /\ fs' = fs
       ELSE \E made \in {IF is_dir(fs, Ensured(result.path)) THEN fs
                         ELSE MkdirParents(fs, Ensured(result.path))} :
                /\ fs' = made
                /\ err' = ""
                /\ IF SkipsExisting(check_exists, made, result.path)
                   THEN /\ pc' = "gen"
                        /\ cmds' = Record("exists")
                   ELSE /\ pc' = "isolated"
                        /\ cmds' = Record("called")
    /\ UNCHANGED <<cmd_generator, global_meta, pools, pos, last, yielded, dropped,
                   calls, first>>
    /\ UNCHANGED <<driver, check_exists, output_is_dir, tmp>>
    /\ UNCHANGED <<packerVars, sizesVars>>

\* run_command_isolated up to the launch of the process: the sandbox is
\* created, the inputs are staged and the output directories made.  An
\* exception leaves the with block, which removes the sandbox, and nothing
\* in run_for_series catches it.
RunIsolatedStage ==
    /\ pc = "isolated"
    /\ IF \E i \in DOMAIN input_files(result.cmd_args) :
            StageFails(fs, input_files(result.cmd_args)[i], MaxIncludeDepth)
       THEN /\ pc' = "raised"
            /\ err' = "FileNotFoundError"
            /\ cmds' = Record("staging_failed")
            /\ tmp' = NoSandbox
       ELSE \E staged \in {Staged(fs, input_files(result.cmd_args), MaxIncludeDepth,
                                  Len(input_files(result.cmd_args)))} :
                IF OutputDirs(result.cmd_args) \cap DOMAIN staged # {}
                THEN /\ pc' = "raised"
                     /\ err' = "FileExistsError"
                     /\ cmds' = Record("prepare_failed")
                     /\ tmp' = NoSandbox
                ELSE /\ pc' = "staged"
                     /\ err' = ""
                     /\ cmds' = Record("staged")
                     /\ tmp' = [exists |-> TRUE,
                                tree |-> WithOutputDirs(staged, result.cmd_args),
                                k |-> 1, rc |-> 0]
    /\ UNCHANGED <<cmd_generator, global_meta, pools, pos, last, yielded, dropped,
                   calls, first>>
    /\ UNCHANGED <<driver, check_exists, output_is_dir, fs>>
    /\ UNCHANGED <<packerVars, sizesVars>>

\* The exit codes of the external process.
ExitCodes == {0, 1}

\* The data the process writes when it exits with rc.
DataFor(rc) == IF rc = 0 THEN "whole" ELSE "partial"

HasFileOutput(cmd_args) ==
    \E i \in DOMAIN cmd_args : IsOutput(cmd_args[i]) /\ ~IsDirOutput(cmd_args[i])

\* rc = run(args, cwd=temp_dir).returncode: the process exits with any code,
\* having written its output file or not, and any tree under its output
\* directory.
ExternalProcess ==
    /\ pc = "staged"
    /\ \E rc \in ExitCodes, wrote \in BOOLEAN, shape \in Shapes :
        /\ wrote => HasFileOutput(result.cmd_args)
        /\ shape # "none" => OutputDirs(result.cmd_args) # {}
        /\ tmp' = [tmp EXCEPT
                    !.tree = AfterProcess(tmp.tree, output_files(result.cmd_args),
                                          wrote, shape, DataFor(rc),
                                          Len(output_files(result.cmd_args))),
                    !.rc = rc]
        /\ cmds' = [cmds EXCEPT ![Len(cmds)].outcome = "exited",
                                ![Len(cmds)].launched = TRUE,
                                ![Len(cmds)].rc = rc,
                                ![Len(cmds)].made =
                                    IF wrote \/ shape # "none" THEN DataFor(rc) ELSE "",
                                ![Len(cmds)].shape = shape]
    /\ pc' = "exited"
    /\ UNCHANGED <<cmd_generator, global_meta, pools, pos, last, yielded, dropped,
                   calls, first, err>>
    /\ UNCHANGED <<driver, check_exists, output_is_dir, fs>>
    /\ UNCHANGED <<packerVars, sizesVars>>

\* The output file the harvest loop is at.
cmd_file == output_files(result.cmd_args)[tmp.k]

\* One iteration of "for cmd_file in output_files" for an output of type
\* file: shutil.copy(temp_path / cmd_file.path.name, cmd_file.path).
HarvestFile ==
    /\ pc = "exited"
    /\ tmp.k <= Len(output_files(result.cmd_args))
    /\ cmd_file.type = "file"
    /\ IF CopyFails(tmp.tree, name(cmd_file.name), fs, cmd_file.name)
       THEN /\ pc' = "raised"
            /\ err' = CopyError(tmp.tree, name(cmd_file.name), fs, cmd_file.name)
            /\ cmds' = Record("harvest_failed")
            /\ tmp' = NoSandbox
            /\ fs' = fs
       ELSE /\ fs' = copy(tmp.tree, name(cmd_file.name), fs, cmd_file.name)
            /\ tmp' = [tmp EXCEPT !.k = tmp.k + 1]
            /\ UNCHANGED <<pc, err, cmds>>
    /\ UNCHANGED <<cmd_generator, global_meta, pools, pos, last, yielded, dropped,
                   calls, first>>
    /\ UNCHANGED <<driver, check_exists, output_is_dir>>
    /\ UNCHANGED <<packerVars, sizesVars>>

\* One iteration for an output of type dir: every path of glob("**/*") is
\* copied into cmd_file.path, which is created when the first path finds it
\* missing; a path shutil.copy refuses ends the call.
HarvestDir ==
    /\ pc = "exited"
    /\ tmp.k <= Len(output_files(result.cmd_args))
    /\ cmd_file.type = "dir"
    /\ \E order \in GlobOrders(Below(tmp.tree, name(cmd_file.name))) :
        IF order # <<>> /\ ~is_dir(fs, cmd_file.name) /\ MkdirFails(fs, cmd_file.name)
        THEN /\ pc' = "raised"
             /\ err' = IF cmd_file.name \in DOMAIN fs THEN "FileExistsError"
                       ELSE "FileNotFoundError"
             /\ cmds' = Record("harvest_failed")
             /\ tmp' = NoSandbox
             /\ fs' = fs
        ELSE \E to \in {IF order = <<>> \/ is_dir(fs, cmd_file.name) THEN fs
                        ELSE Mkdir(fs, cmd_file.name)} :
             \E n \in {FirstRefused(tmp.tree, order, to, cmd_file.name)} :
                /\ fs' = CopyAll(tmp.tree, order, to, cmd_file.name, n - 1)
                /\ IF n <= Len(order)
                   THEN /\ pc' = "raised"
                        /\ err' = CopyError(tmp.tree, order[n], to, cmd_file.name)
                        /\ cmds' = Record("harvest_failed")
                        /\ tmp' = NoSandbox
                   ELSE /\ tmp' = [tmp EXCEPT !.k = tmp.k + 1]
                        /\ UNCHANGED <<pc, err, cmds>>
    /\ UNCHANGED <<cmd_generator, global_meta, pools, pos, last, yielded, dropped,
                   calls, first>>
    /\ UNCHANGED <<driver, check_exists, output_is_dir>>
    /\ UNCHANGED <<packerVars, sizesVars>>

\* "return rc" leaves the with block, which removes the sandbox;
\* run_for_series prints the code and goes on to the next command.
RunIsolatedReturn ==
    /\ pc = "exited"
    /\ tmp.k > Len(output_files(result.cmd_args))
    /\ tmp' = NoSandbox
    /\ cmds' = Record("returned")
    /\ pc' = "gen"
    /\ UNCHANGED <<cmd_generator, global_meta, pools, pos, last, yielded, dropped,
                   calls, first, err>>
    /\ UNCHANGED <<driver, check_exists, output_is_dir, fs>>
    /\ UNCHANGED <<packerVars, sizesVars>>

\* The .scad files of the repository and their include lines.
BinsScad == <<"gridfinity-rebuilt-", "bins", ".scad">>
LiteScad == <<"gridfinity-rebuilt-", "lite", ".scad">>
UtilityScad == <<"gridfinity-rebuilt-", "utility", ".scad">>
ConstantsScad == <<"gridfinity-constants", ".scad">>

\* The slicer's profiles.
Profile(filament) == <<"profile_", filament, "_n", "06", ".ini">>

\* The destinations of the commands g yields under the overlay, in order.
Destinations(g, overlay) ==
    IF ~Pools(g, overlay).ok THEN <<>>
    ELSE [n \in DOMAIN SelectSeq(Outcomes(g, Pools(g, overlay).val, overlay), IsYield) |->
            SelectSeq(Outcomes(g, Pools(g, overlay).val, overlay), IsYield)[n].res.path]

\* The files the commands of a generator read, as <<path, node>>.
SourcesOf(id) ==
    CASE id = "scad_tiny" ->
            <<<<BinsScad, File("bins", <<UtilityScad>>)>>,
              <<LiteScad, File("lite", <<UtilityScad>>)>>,
              <<UtilityScad, File("utility", <<ConstantsScad>>)>>,
              <<ConstantsScad, File("constants", <<>>)>>>>
      [] id = "slicer_tiny" ->
            <<<<Profile("pla"), File("pla", <<>>)>>,
              <<Profile("petg"), File("petg", <<>>)>>>> \o
            [n \in DOMAIN Destinations(scad_flat, shared_meta) |->
                <<Destinations(scad_flat, shared_meta)[n], File("stl", <<>>)>>]
      [] OTHER -> <<<<<<"in", ".txt">>, File("in", <<>>)>>>>

\* The tree with the node at p and the directories above p.
WithNode(tree, p, node) ==
    (p :> node) @@ (IF parent(p) = Here THEN tree ELSE MkdirParents(tree, parent(p)))

\* The tree holding the files 1..i but the one numbered missing.
RECURSIVE Plant(_, _, _)
Plant(files, missing, i) ==
    IF i = 0 THEN EmptyTree
    ELSE IF i = missing THEN Plant(files, missing, i - 1)
    ELSE WithNode(Plant(files, missing, i - 1), files[i][1], files[i][2])

OutputsAreDirs(g) == \E i \in DOMAIN g.cmd : IsDirOutput(g.cmd[i])

\* What is found at a destination left by an earlier run.
StaleNode(g) == IF OutputsAreDirs(g) THEN Dir ELSE File("old", <<>>)

SeriesGens == {"ab", "ab_undefined_late", "scad_tiny", "slicer_tiny"}

\* __main__: global_meta is updated with shared_meta, then run_for_series is
\* called on a generator, with output_is_dir for the generators whose output
\* is a directory.  The working directory holds the files the commands
\* read, all or all but one, and the destination of one of the first
\* commands may be there from an earlier run.
InitSeries ==
    /\ cmd_generator \in SeriesGens
    /\ global_meta = shared_meta
    /\ driver = "run_for_series"
    /\ check_exists \in BOOLEAN
    /\ output_is_dir = OutputsAreDirs(gen)
    /\ \E files \in {SourcesOf(cmd_generator)}, dests \in {Destinations(gen, global_meta)} :
       \E missing \in 0 .. Len(files), stale \in 0 .. MaxStale :
        /\ stale <= Len(dests)
        /\ \E tree \in {Plant(files, missing, Len(files))} :
            fs = IF stale = 0 THEN tree ELSE WithNode(tree, dests[stale], StaleNode(gen))
    /\ tmp = NoSandbox
    /\ cmds = <<>>
    /\ pc = "start"
    /\ pools = <<>>
    /\ pos = <<>>
    /\ last = <<>>
    /\ yielded = <<>>
    /\ dropped = 0
    /\ calls = 1
    /\ first = <<>>
    /\ err = ""
    /\ IdlePacker
    /\ IdleSizes

NextSeries ==
    \/ GenStart
    \/ GenNext
    \/ SeriesBody
    \/ RunIsolatedStage
    \/ ExternalProcess
    \/ HarvestFile
    \/ HarvestDir
    \/ RunIsolatedReturn

SpecSeries == InitSeries /\ [][NextSeries]_vars

(***************************************************************************)
(* Claims about run_command_isolated and run_for_series                    *)
(***************************************************************************)
\* The call of run_command_isolated for the command at hand has returned.
Returned == cmds # <<>> /\ last.kind = "yield" /\ Current.outcome = "returned"

\* The command at hand declares one input file and one output file.
OneInOneOut ==
    /\ Len(input_files(result.cmd_args)) = 1
    /\ Len(output_files(result.cmd_args)) = 1
    /\ output_files(result.cmd_args)[1].type = "file"

\* C2: after run_command_isolated returns for a command with one declared
\* input file and one declared output file, the destination is a file
\* holding the data the process wrote in the sandbox and the sandbox is
\* gone, whatever the exit code; the sandbox exists only inside the call.
C2_OutputHarvested ==
    /\ (Returned /\ OneInOneOut) =>
        /\ Current.launched
        /\ Current.made = DataFor(Current.rc)
        /\ is_file(fs, output_files(result.cmd_args)[1].name)
        /\ fs[output_files(result.cmd_args)[1].name].data = Current.made
        /\ ~tmp.exists
    /\ tmp.exists => pc \in {"staged", "exited"}

\* A process that exited with 1 overwrote a destination of an earlier run.
C2_Witness ==
    /\ Returned /\ OneInOneOut
    /\ Current.rc = 1
    /\ Current.pre = "file"
    /\ fs[Current.path].data = "partial"

\* C3: under check_exists, the process of a command whose destination was
\* there when the command was reached (a file, or a directory under
\* output_is_dir) is never launched.
C3_ExistingNeverLaunched ==
    check_exists =>
        \A k \in DOMAIN cmds :
            cmds[k].pre = (IF output_is_dir THEN "dir" ELSE "file") => ~cmds[k].launched

\* C4: a process that exits with a non-zero code does not end the walk: the
\* call returns the code and run_for_series goes on.
C4_NonZeroExitNotFatal ==
    (cmds # <<>> /\ Current.launched /\ Current.rc # 0) => pc # "raised"

\* C5: when a template reads a key no meta defines, the run ends with the
\* undefined-variable error before any process was launched.
C5_UndefinedBeforeSpawn ==
    (pc = "raised" /\ err = UndefinedError) => \A k \in DOMAIN cmds : ~cmds[k].launched

\* C6: a command whose staging fails (a missing input, an include that cannot
\* be read) is given up and the walk goes on with the next one.
C6_StagingFailureSkipsOne ==
    (cmds # <<>> /\ Current.outcome = "staging_failed") => pc # "raised"

\* The harvest of the command at hand, which has an output directory, is
\* over: run_command_isolated returned or raised after the process exited.
DirHarvestOver ==
    /\ cmds # <<>> /\ last.kind = "yield"
    /\ OutputDirs(result.cmd_args) # {}
    /\ Current.outcome \in {"returned", "harvest_failed"}

\* The names of the files the process left under its output directory, at
\* any depth.
FileNames(shape) ==
    {name(q) : q \in {p \in DOMAIN ProcessTree(<<"d">>, shape, "") :
                        ProcessTree(<<"d">>, shape, "")[p].kind = "file"}}

\* C13: after the process exits, every file at any depth under the sandbox
\* output directory is in the destination directory under its own name, and
\* run_command_isolated returns the exit code, whatever tree the process
\* wrote, nested directories included.
C13_TreeHarvested ==
    DirHarvestOver =>
        /\ Current.outcome = "returned"
        /\ \A n \in FileNames(Current.shape) :
                /\ is_file(fs, Join(Current.path, n))
                /\ fs[Join(Current.path, n)].data = Current.made

(***************************************************************************)
(* Claims about build_commands                                             *)
(***************************************************************************)
\* Every tuple of indices into the pools.
RECURSIVE MaxOf(_)
MaxOf(ns) == IF ns = <<>> THEN 0 ELSE Max(Head(ns), MaxOf(Tail(ns)))

AllPositions ==
    {t \in [DOMAIN pools -> 1 .. MaxOf(Sizes(pools))] :
        \A i \in DOMAIN pools : t[i] <= Len(pools[i])}

\* The positions whose combination passes every predicate.
KeptPositions ==
    {t \in AllPositions :
        BuildOne(gen, ComboAt(pools, t), global_meta).kind = "yield"}

\* a comes before b in row-major order: the first factor varies slowest.
RowMajorBefore(a, b) ==
    \E i \in DOMAIN a : a[i] < b[i] /\ \A j \in 1 .. i - 1 : a[j] = b[j]

\* The last combination is rejected by a predicate.
LastRejected == _filter(gen, last.res.meta) = "false"

\* The tags <<A, B>> of the combinations of A = (1, 2), B = (x, y), in order.
ABExpected ==
    <<<<<<"1">>, <<"x">>>>, <<<<"1">>, <<"y">>>>,
      <<<<"2">>, <<"x">>>>, <<<<"2">>, <<"y">>>>>>

\* C1: every call of build_commands on the same generator and overlay yields
\* the row-major Cartesian product of the factors' values without the
\* combinations a predicate rejects: the results come in row-major order,
\* their number is the product of the pool sizes minus the number dropped,
\* a later call yields what the first did, and A=(1,2), B=(x,y) without a
\* predicate yields (1,x), (1,y), (2,x), (2,y) in that order.
C1_RowMajorProduct ==
    /\ \A i, j \in DOMAIN yielded : i < j => RowMajorBefore(yielded[i], yielded[j])
    /\ pc = "done" =>
        /\ Len(yielded) = Product(Sizes(pools)) - dropped
        /\ Range(yielded) = KeptPositions
        /\ calls > 1 => yielded = first
        /\ cmd_generator = "ab" =>
                yielded = <<<<1, 1>>, <<1, 2>>, <<2, 1>>, <<2, 2>>>>
    /\ (pc = "gen" /\ last # <<>>) =>
        /\ last.kind = "yield" => yielded[Len(yielded)] = last.at
        /\ last.kind = "drop" => LastRejected
        /\ (cmd_generator = "ab" /\ last.kind = "yield") =>
                <<last.res.meta["A"], last.res.meta["B"]>> = ABExpected[Len(yielded)]

\* A second call of a generator with a predicate ran to its end.
C1_Witness ==
    pc = "done" /\ calls = 2 /\ cmd_generator = "ab_cond" /\ dropped = 1
    /\ Len(yielded) = 3

\* The generator has a nested factor, the first one (cmd_gen_for_slicer).
IsNested == gen.factors[1].nested

\* The keys an outer generator writes after the nested factor's meta was
\* merged: the names of its later factors and of its vars.
OuterKeys ==
    {gen.factors[i].name : i \in 2 .. Len(gen.factors)}
        \cup {gen.vars[i][1] : i \in DOMAIN gen.vars}

HasOuterPredicate == filters(gen) # <<>>

\* The inner result the last outer combination was built from.
InnerOfLast == pools[1][last.at[1]]

\* The product of the sizes of the pools after the first.
OthersProduct == Product(Tail(Sizes(pools)))

\* C7, as stated: an outer generator whose model factor wraps an inner one
\* of N commands yields (without an exception, when the overlay defines the
\* output directories) N times the product of the other factors' sizes, and
\* every key of the inner command's meta is in the outer meta with the inner
\* command's value.
C7_InnerMetaKept ==
    (cmd_generator # "idle" /\ IsNested) =>
        /\ (pc = "raised" \/ err # "") => global_meta = EmptyMeta
        /\ (pc = "done" /\ ~HasOuterPredicate) =>
                Len(yielded) = Len(pools[1]) * OthersProduct
        /\ (pc = "gen" /\ last # <<>> /\ last.kind = "yield") =>
                \A k \in DOMAIN InnerOfLast.meta :
                    /\ k \in DOMAIN last.res.meta
                    /\ last.res.meta[k] = InnerOfLast.meta[k]

\* C7, amended: the count is as stated; every key of the inner command's
\* meta is in the outer meta, with the inner command's value unless a later
\* outer factor or an outer var has that name (then the outer value wins).
C7_InnerMetaMerged ==
    (cmd_generator # "idle" /\ IsNested) =>
        /\ (pc = "raised" \/ err # "") => global_meta = EmptyMeta
        /\ (pc = "done" /\ ~HasOuterPredicate) =>
                Len(yielded) = Len(pools[1]) * OthersProduct
        /\ (pc = "gen" /\ last # <<>> /\ last.kind = "yield") =>
                \A k \in DOMAIN InnerOfLast.meta :
                    /\ k \in DOMAIN last.res.meta
                    /\ k \notin OuterKeys =>
                            last.res.meta[k] = InnerOfLast.meta[k]

\* An outer generator without predicate ran to its end over an inner one of
\* 8 commands and 2 filament types.
C7_Witness ==
    /\ cmd_generator = "slicer_plain" /\ pc = "done"
    /\ Len(pools[1]) = 8 /\ Len(yielded) = 16

\* meta as the factor loop left it for the last combination, before the
\* vars were resolved.
BeforeVars == MetaAfter(gen, ComboAt(pools, last.at), global_meta, Len(gen.factors))

VarNames == {gen.vars[i][1] : i \in DOMAIN gen.vars}

\* C11, as stated: the vars are resolved one at a time in declared order,
\* each value written into meta before the next is rendered, so a var that
\* reads an earlier var renders, with that var's resolved value.
C11_VarsSequential ==
    (last # <<>> /\ gen.vars # <<>>
        /\ SequentialVarsOk(gen.vars, BeforeVars, Len(gen.vars))) =>
        /\ last.kind # "raise"
        /\ \A k \in VarNames :
                last.res.meta[k] = SequentialVars(gen.vars, BeforeVars, Len(gen.vars))[k]

\* C11, amended: every var is rendered against meta as the factor loop left
\* it, and the values are written together afterwards: a var that reads a
\* name gets the value the name had before the vars (a factor's tag, a
\* nested result's meta, the overlay), and build_commands raises the
\* undefined-variable error when the name had none.
C11_VarsRenderedTogether ==
    (last # <<>> /\ gen.vars # <<>>) =>
        /\ (\E i \in DOMAIN gen.vars : ~jinja_render(gen.vars[i][2], BeforeVars).ok)
                => (last.kind = "raise" /\ err = UndefinedError)
        /\ last.kind # "raise" =>
                \A i \in DOMAIN gen.vars :
                    /\ jinja_render(gen.vars[i][2], BeforeVars).ok
                    /\ last.res.meta[gen.vars[i][1]] =
                            jinja_render(gen.vars[i][2], BeforeVars).val

\* The var "file" read B after the var "B" was declared, and holds the tag
\* of the factor B.
C11_Witness ==
    /\ cmd_generator = "ab_var_shadow" /\ last # <<>> /\ last.kind = "yield"
    /\ last.res.meta["B"] = <<"b-", "1">>
    /\ last.res.meta["file"] = <<"y", ".out">>

\* The predicates were evaluated for the last combination on last.res.meta.
Judged == last # <<>> /\ last.kind \in {"yield", "drop"}

\* The keys a predicate of the factor at position i may see, by the claim:
\* the tags of the factors up to i (the meta of a nested result among them),
\* the vars and the overlay.
VisibleAt(i) ==
    UNION {IF gen.factors[j].nested THEN DOMAIN pools[j][last.at[j]].meta
           ELSE {gen.factors[j].name} : j \in 1 .. i}
        \cup VarNames \cup DOMAIN global_meta

\* C12, as stated: the meta a factor's predicate is given holds the tags of
\* the factors at or before its position and the resolved vars, never the
\* tag of a later factor.
C12_LaterTagsHidden ==
    Judged =>
        \A i \in DOMAIN gen.factors :
            HasCondition(gen.factors[i]) => DOMAIN last.res.meta \subseteq VisibleAt(i)

\* C12, amended: every predicate is given the complete meta of the
\* combination, with the tag of every factor, earlier or later, and the
\* resolved vars; a predicate declared on A that reads the later B drops
\* the combinations with B = y and keeps those with B = x.
C12_PredicatesSeeAllTags ==
    /\ Judged =>
        /\ \A j \in DOMAIN gen.factors :
                ~gen.factors[j].nested => gen.factors[j].name \in DOMAIN last.res.meta
        /\ VarNames \subseteq DOMAIN last.res.meta
        /\ cmd_generator = "ab_later" =>
                /\ last.res.meta["B"] = ABValues[last.at[2]]
                /\ (last.kind = "drop") = (last.res.meta["B"] = <<"y">>)
    /\ cmd_generator = "ab_later" =>
        /\ pc # "raised"
        /\ pc = "done" => yielded = <<<<1, 1>>, <<2, 1>>>>

\* The predicate declared on A dropped a combination for its tag of B.
C12_Witness ==
    /\ cmd_generator = "ab_later" /\ Judged /\ last.kind = "drop"
    /\ last.res.meta["A"] = <<"2">> /\ last.res.meta["B"] = <<"y">>

\* The tags the last combination of slicer_bin_gen was judged on.
LastTag(k) == last.res.meta[k]

\* C8: in slicer_bin_gen the predicate of print_count reads the tag of the
\* earlier, nested base_size: print_count=4 with base_size=3x3 is dropped,
\* print_count=4 with base_size=1x1 is kept, print_count=1 is kept.
C8_PrintCountPredicate ==
    (cmd_generator = "slicer_bin_gen" /\ last # <<>> /\ last.kind # "raise") =>
        /\ (LastTag("print_count") = <<"4">> /\ LastTag("base_size") = <<"3x3">>)
                => last.kind = "drop"
        /\ (LastTag("print_count") = <<"4">> /\ LastTag("base_size") = <<"1x1">>)
                => last.kind = "yield"
        /\ LastTag("print_count") = <<"1">> => last.kind = "yield"

\* A combination with print_count=4 and base_size=3x3 was just dropped, after
\* one with print_count=4 and base_size=1x1 was yielded.
C8_Witness ==
    /\ cmd_generator = "slicer_bin_gen" /\ last # <<>> /\ last.kind = "drop"
    /\ LastTag("print_count") = <<"4">> /\ LastTag("base_size") = <<"3x3">>
    /\ \E n \in DOMAIN yielded :
            /\ pools[1][yielded[n][1]].meta["base_size"] = <<"1x1">>
            /\ pools[4][yielded[n][4]] = 4

Spec == SpecGen
====
